---------------------------- MODULE Spec2Model ----------------------------
(***************************************************************************)
(* Model of "dowloader bot/main.py": a single-shot batch job that searches *)
(* for Instagram reel links (VideoDownloader.find_video_links), downloads  *)
(* them (download_video / download_videos), and republishes every          *)
(* downloaded file through the SocialVerse API (VideoUploader), driven by  *)
(* main().                                                                 *)
(*                                                                         *)
(* Strings are modelled by what the code does with them:                   *)
(*   - a URL is the sequence of its '/'-separated segments, i.e. the value *)
(*     of url.split('/'); "https://ig/reel/a/" is                          *)
(*     <<"https:", "", "ig", "reel", "a", "">>;                            *)
(*   - a file of the download directory is named <<kind, index, code>>:    *)
(*     <<"vid", i, sc>> is instagram_video_{i}_{sc}.mp4 and <<"raw", 0,    *)
(*     sc>> is the .mp4 the download library writes for shortcode sc;      *)
(*   - Python's None and the empty string, both falsy, are "" (strings)    *)
(*     and <<>> (URLs, paths).                                             *)
(***************************************************************************)
EXTENDS Integers, Sequences, FiniteSets, TLC

VARIABLES
    pc,               \* position of main()
    attempt,          \* number of iterations of the retry loop started
    video_links,      \* the list find_video_links returned
    index,            \* download_videos: index of the next fetch to run
    gathered,         \* download_videos: results of the fetches run so far
    downloaded_files, \* main: downloaded_files
    disk,             \* the download directory: file name -> [origin, size]
    escaping,         \* a BaseException is propagating out of main
    upload_pos,       \* main: position of the upload loop in downloaded_files
    upload_info,      \* upload_video_to_socialverse: upload_info
    result_links,     \* find_video_links: the rendered anchor elements
    max_videos,       \* find_video_links: max_videos
    inspected,        \* find_video_links: elements whose href was read
    \* ---- observation of the run (history) ----
    links_found,      \* some call of find_video_links returned a link
    fetched,          \* download_video has been called
    empty_attempts,   \* calls of download_videos that returned an empty list
    sleeps,           \* calls of asyncio.sleep(3)
    quitCalls,        \* calls of driver.quit()
    publishCalls,     \* positions for which publish was invoked
    posted,           \* paths whose publish returned a PostRecord
    removed,          \* paths main removed with os.remove
    reqlog,           \* HTTP requests sent to the upload API, in order
    log               \* tags of the messages logged

vars == <<pc, attempt, video_links, index, gathered, downloaded_files, disk,
          escaping, upload_pos, upload_info, result_links, max_videos,
          inspected, links_found, fetched, empty_attempts, sleeps,
          quitCalls, publishCalls, posted, removed, reqlog, log>>

----------------------------------------------------------------------------
(* Program constants and bounds *)

MAX_VIDEOS == 5
max_retries == 3

\* Longest list of anchor elements the search page renders in a run of main.
MaxRendered == 2
\* Longest rendered list and largest max_videos given to find_video_links
\* when it is checked on its own.
MaxScan == 3
MaxCap == 2
\* Longest list of links handed to the fetches when download_videos is
\* checked from line 178 on.
MaxLinks == 2

----------------------------------------------------------------------------
(* URLs and rendered elements *)

ReelA == <<"https:", "", "ig", "reel", "a", "">>
ReelB == <<"https:", "", "ig", "reel", "b", "">>
\* a reel URL without the trailing slash
ReelNoSlash == <<"https:", "", "ig", "reel", "a">>
\* a reel URL whose post identifier is empty: ".../reel//"
ReelEmpty == <<"https:", "", "ig", "reel", "", "">>
\* a result that is no reel
OtherUrl == <<"https:", "", "ig", "p", "c", "">>
NoUrl == <<>>

Hrefs == {ReelA, ReelB, ReelNoSlash, ReelEmpty, OtherUrl, NoUrl}
\* the hrefs the search page shows in a run of main
RunHrefs == {ReelA, ReelB, ReelEmpty, OtherUrl, NoUrl}

\* A rendered anchor: get_attribute('href') returns href, or raises.
ElementsOf(hrefs) == [href : hrefs, raises : {FALSE}] \cup [href : {NoUrl}, raises : {TRUE}]

SeqsUpTo(S, n) == UNION {[1..m -> S] : m \in 0..n}

\* '/reel/' in url
ContainsReel(url) == \E i \in 2..(Len(url) - 1) : url[i] = "reel"

----------------------------------------------------------------------------
(* VideoDownloader.find_video_links, lines 93-111: the scan of the rendered *)
(* elements.  ScanFrom returns the links collected and the number of        *)
(* elements whose href was read.                                            *)

RECURSIVE ScanFrom(_, _, _, _)
ScanFrom(links, i, acc, cap) ==
    IF i > Len(links) THEN [links |-> acc, inspected |-> Len(links)]
    ELSE LET el == links[i] IN
         IF el.raises THEN ScanFrom(links, i + 1, acc, cap)
         ELSE IF el.href # NoUrl /\ ContainsReel(el.href)
              THEN LET acc2 == Append(acc, el.href) IN
                   IF Len(acc2) >= cap
                   THEN [links |-> acc2, inspected |-> i]
                   ELSE ScanFrom(links, i + 1, acc2, cap)
              ELSE ScanFrom(links, i + 1, acc, cap)

ScanLinks(links, cap) == ScanFrom(links, 1, <<>>, cap)

----------------------------------------------------------------------------
(* The download directory *)

NoPath == <<>>
FullPath(i, shortcode) == <<"vid", i, shortcode>>
RawFile(shortcode) == <<"raw", 0, shortcode>>

Exists(d, path) == path \in DOMAIN d
GetSize(d, path) == d[path].size

WriteFile(d, path, file) ==
    [x \in DOMAIN d \cup {path} |-> IF x = path THEN file ELSE d[x]]

\* os.rename(src, dst): dst is replaced when it exists
Rename(d, src, dst) ==
    IF src = dst THEN d
    ELSE [x \in (DOMAIN d \ {src}) \cup {dst} |-> IF x = dst THEN d[src] ELSE d[x]]

\* os.remove(path)
Remove(d, path) == [x \in DOMAIN d \ {path} |-> d[x]]

\* The first entry of os.listdir ending in '.mp4': the order of a directory
\* listing is arbitrary, so any .mp4 of the directory can come first.
FirstMp4(d) == DOMAIN d

----------------------------------------------------------------------------
(* The download library (instaloader): Post.from_shortcode + download_post. *)
(* A call writes the post's .mp4 with data, writes it empty or partial, or  *)
(* writes nothing, and returns or raises.  "raises" stands for an exception *)
(* anywhere in the try of lines 138-150: in the library, or in os.listdir   *)
(* or os.rename after the library has written its file.                     *)

DownloadOutcomes ==
    {[wrote |-> "data", raises |-> FALSE], [wrote |-> "empty", raises |-> FALSE],
     [wrote |-> "none", raises |-> TRUE], [wrote |-> "data", raises |-> TRUE]}

DownloadPost(d, shortcode, out) ==
    CASE out.wrote = "data"  -> WriteFile(d, RawFile(shortcode), [origin |-> shortcode, size |-> 1])
      [] out.wrote = "empty" -> WriteFile(d, RawFile(shortcode), [origin |-> shortcode, size |-> 0])
      [] OTHER               -> d

----------------------------------------------------------------------------
(* VideoDownloader.download_video, lines 117-164 *)

\* line 127: video_url.split('/')[-2] if '/reel/' in video_url else None
Shortcode(url) == IF ContainsReel(url) THEN url[Len(url) - 1] ELSE ""

\* lines 155-160: the path when the file exists with a positive size
Verify(d, full_path) ==
    IF Exists(d, full_path) /\ GetSize(d, full_path) > 0 THEN full_path ELSE NoPath

\* download_video without its exception handlers: an exception of the try
\* body leaves the call instead of becoming a None
download_videoPropagates(d, url, i) ==
    LET shortcode == Shortcode(url)
        full_path == FullPath(i, shortcode)
    IN  IF shortcode = ""
        THEN {[disk |-> d, ret |-> NoPath, called |-> FALSE, wrote |-> "none",
               raised |-> FALSE]}
        ELSE UNION {
               LET d1 == DownloadPost(d, shortcode, out) IN
               IF out.raises
               THEN {[disk |-> d1, ret |-> <<"exception">>, called |-> TRUE, wrote |-> out.wrote,
                      raised |-> TRUE]}
               ELSE IF FirstMp4(d1) = {}
               THEN {[disk |-> d1, ret |-> Verify(d1, full_path), called |-> TRUE,
                      wrote |-> out.wrote, raised |-> FALSE]}
               ELSE {LET d2 == Rename(d1, filename, full_path) IN
                     [disk |-> d2, ret |-> Verify(d2, full_path), called |-> TRUE,
                      wrote |-> out.wrote, raised |-> FALSE]
                     : filename \in FirstMp4(d1)}
               : out \in DownloadOutcomes }

\* Every way one call can end: the directory it leaves, the value it
\* returns and what the library did.
download_video(d, url, i) ==
    LET shortcode == Shortcode(url)
        full_path == FullPath(i, shortcode)
    IN  IF shortcode = ""
        THEN {[disk |-> d, ret |-> NoPath, called |-> FALSE, wrote |-> "none",
               raised |-> FALSE]}
        ELSE UNION {
               LET d1 == DownloadPost(d, shortcode, out) IN
               IF out.raises
               THEN {[disk |-> d1, ret |-> NoPath, called |-> TRUE, wrote |-> out.wrote,
                      raised |-> TRUE]}
               ELSE IF FirstMp4(d1) = {}
               THEN {[disk |-> d1, ret |-> Verify(d1, full_path), called |-> TRUE,
                      wrote |-> out.wrote, raised |-> FALSE]}
               ELSE {LET d2 == Rename(d1, filename, full_path) IN
                     [disk |-> d2, ret |-> Verify(d2, full_path), called |-> TRUE,
                      wrote |-> out.wrote, raised |-> FALSE]
                     : filename \in FirstMp4(d1)}
               : out \in DownloadOutcomes }

----------------------------------------------------------------------------
(* Initial state: main() has constructed the downloader (lines 391-402);   *)
(* the download directory is empty.                                        *)

NoInfo == [upload_url |-> "", hash |-> ""]
EmptyDir == [x \in {} |-> [origin |-> "", size |-> 0]]

InitRun ==
    /\ attempt = 0
    /\ video_links = <<>>
    /\ index = 1
    /\ gathered = <<>>
    /\ downloaded_files = <<>>
    /\ disk = EmptyDir
    /\ escaping = FALSE
    /\ upload_pos = 0
    /\ upload_info = NoInfo
    /\ links_found = FALSE
    /\ fetched = FALSE
    /\ empty_attempts = 0
    /\ sleeps = 0
    /\ quitCalls = 0
    /\ publishCalls = {}
    /\ posted = {}
    /\ removed = {}
    /\ reqlog = <<>>
    /\ log = {}

Init ==
    /\ pc = "for"
    /\ result_links = <<>>
    /\ max_videos = MAX_VIDEOS
    /\ inspected = 0
    /\ InitRun

findVars == <<result_links, max_videos, inspected>>
downloadVars == <<video_links, index, gathered, disk, links_found, fetched>>
uploadVars == <<upload_pos, upload_info, publishCalls, posted, removed, reqlog>>

----------------------------------------------------------------------------
(* main(), discovery phase: lines 404-431 *)

\* main_for with the loop bound off by one: range(max_retries + 1)
main_forOffByOne ==
    /\ pc = "for"
    /\ IF attempt <= max_retries
       THEN attempt' = attempt + 1 /\ pc' = "find"
       ELSE attempt' = attempt /\ pc' = "finally"
    /\ UNCHANGED <<downloaded_files, escaping, empty_attempts, sleeps, quitCalls, log>>
    /\ UNCHANGED <<findVars, downloadVars, uploadVars>>

\* line 407: for attempt in range(max_retries)
main_for ==
    /\ pc = "for"
    /\ IF attempt < max_retries
       THEN attempt' = attempt + 1 /\ pc' = "find"
       ELSE attempt' = attempt /\ pc' = "finally"
    /\ UNCHANGED <<downloaded_files, escaping, empty_attempts, sleeps, quitCalls, log>>
    /\ UNCHANGED <<findVars, downloadVars, uploadVars>>

\* download_videos, line 175: the call of find_video_links.  The search
\* renders a list of anchors which is scanned (lines 93-111), or a step of
\* the search raises and the call returns [] (lines 113-115).
download_videos_find ==
    /\ pc = "find"
    /\ \/ \E rendered \in SeqsUpTo(ElementsOf(RunHrefs), MaxRendered) :
            video_links' = ScanLinks(rendered, max_videos).links
       \/ video_links' = <<>>
    /\ links_found' = (links_found \/ video_links' # <<>>)
    /\ index' = 1
    /\ gathered' = <<>>
    /\ pc' = "fetch"
    /\ UNCHANGED <<attempt, downloaded_files, disk, escaping, fetched,
                   empty_attempts, sleeps, quitCalls, log>>
    /\ UNCHANGED <<findVars, uploadVars>>

\* download_videos_fetch with enumerate(video_links) counting from 0
download_videos_fetchZeroBased ==
    /\ pc = "fetch"
    /\ index <= Len(video_links)
    /\ \E r \in download_video(disk, video_links[index], index - 1) :
         /\ disk' = r.disk
         /\ gathered' = Append(gathered, [path |-> r.ret, called |-> r.called,
                                          wrote |-> r.wrote, raised |-> r.raised])
    /\ index' = index + 1
    /\ fetched' = TRUE
    /\ UNCHANGED <<pc, attempt, video_links, downloaded_files, escaping, links_found,
                   empty_attempts, sleeps, quitCalls, log>>
    /\ UNCHANGED <<findVars, uploadVars>>

\* download_videos, lines 178-184: download_video has no await in its body,
\* so under asyncio.gather each fetch runs from start to end before the
\* next one starts, in index order.
download_videos_fetch ==
    /\ pc = "fetch"
    /\ index <= Len(video_links)
    /\ \E r \in download_video(disk, video_links[index], index) :
         /\ disk' = r.disk
         /\ gathered' = Append(gathered, [path |-> r.ret, called |-> r.called,
                                          wrote |-> r.wrote, raised |-> r.raised])
    /\ index' = index + 1
    /\ fetched' = TRUE
    /\ UNCHANGED <<pc, attempt, video_links, downloaded_files, escaping, links_found,
                   empty_attempts, sleeps, quitCalls, log>>
    /\ UNCHANGED <<findVars, uploadVars>>

\* download_videos, line 187: [v for v in downloaded_videos if v]
Downloaded(results) ==
    LET paths == [j \in 1..Len(results) |-> results[j].path]
    IN  SelectSeq(paths, LAMBDA v : v # NoPath)

\* The locals of download_videos end with the call.
DropLocals ==
    /\ video_links' = <<>>
    /\ index' = 1
    /\ gathered' = <<>>

\* download_videos_return with the upload loop placed inside the try, right
\* after a non-empty result, before the finally clause has run
download_videos_returnUploadsInTry ==
    /\ pc = "fetch"
    /\ index > Len(video_links)
    /\ LET files == Downloaded(gathered) IN
         /\ downloaded_files' = files
         /\ IF files # <<>>
            THEN /\ pc' = "upload"
                 /\ log' = log \cup {"downloaded"}
                 /\ empty_attempts' = empty_attempts
            ELSE /\ pc' = "for"
                 /\ log' = log \cup {"no_videos"}
                 /\ empty_attempts' = empty_attempts + 1
    /\ DropLocals
    /\ UNCHANGED <<attempt, disk, links_found, fetched, escaping, sleeps, quitCalls>>
    /\ UNCHANGED <<findVars, uploadVars>>

\* download_videos returns (line 189) and main takes its result
\* (lines 409-420): break on a non-empty list, else the next iteration.
download_videos_return ==
    /\ pc = "fetch"
    /\ index > Len(video_links)
    /\ LET files == Downloaded(gathered) IN
         /\ downloaded_files' = files
         /\ IF files # <<>>
            THEN /\ pc' = "finally"
                 /\ log' = log \cup {"downloaded"}
                 /\ empty_attempts' = empty_attempts
            ELSE /\ pc' = "for"
                 /\ log' = log \cup {"no_videos"}
                 /\ empty_attempts' = empty_attempts + 1
    /\ DropLocals
    /\ UNCHANGED <<attempt, disk, links_found, fetched, escaping, sleeps, quitCalls>>
    /\ UNCHANGED <<findVars, uploadVars>>

\* lines 422-423: an Exception escapes download_videos.  find_video_links
\* (line 113) and download_video (lines 151, 162) absorb every Exception of
\* their own bodies, so it can only come from the statements of
\* download_videos between them (lines 178-184, e.g. MemoryError), before a
\* fetch has run; downloaded_files keeps its value.
main_except ==
    /\ pc = "fetch"
    /\ index = 1
    /\ log' = log \cup {"retry_failed"}
    /\ pc' = "sleep"
    /\ DropLocals
    /\ UNCHANGED <<attempt, downloaded_files, disk, links_found, fetched, escaping, empty_attempts, sleeps, quitCalls>>
    /\ UNCHANGED <<findVars, uploadVars>>

\* line 424: await asyncio.sleep(3)
main_sleep ==
    /\ pc = "sleep"
    /\ sleeps' = sleeps + 1
    /\ pc' = "for"
    /\ UNCHANGED <<attempt, downloaded_files, escaping, empty_attempts, quitCalls, log>>
    /\ UNCHANGED <<findVars, downloadVars, uploadVars>>

\* A BaseException (KeyboardInterrupt, CancelledError) is raised inside the
\* try of lines 404-424: no "except Exception" catches it and the finally
\* clause runs before it leaves main.
main_interrupt ==
    /\ pc \in {"find", "fetch", "sleep"}
    /\ escaping' = TRUE
    /\ pc' = "finally"
    /\ DropLocals
    /\ UNCHANGED <<attempt, downloaded_files, disk, links_found, fetched, empty_attempts, sleeps, quitCalls, log>>
    /\ UNCHANGED <<findVars, uploadVars>>

\* close called at the end of the try body instead of in a finally clause:
\* an exception on its way out skips it
closeNotInFinally ==
    /\ pc = "finally"
    /\ quitCalls' = IF escaping THEN quitCalls ELSE quitCalls + 1
    /\ pc' = IF escaping THEN "escaped" ELSE "upload"
    /\ UNCHANGED <<attempt, downloaded_files, escaping, empty_attempts, sleeps, log>>
    /\ UNCHANGED <<findVars, downloadVars, uploadVars>>

\* lines 429-431 and VideoDownloader.close, lines 191-196
close ==
    /\ pc = "finally"
    /\ quitCalls' = quitCalls + 1
    /\ pc' = IF escaping THEN "escaped" ELSE "upload"
    /\ UNCHANGED <<attempt, downloaded_files, escaping, empty_attempts, sleeps, log>>
    /\ UNCHANGED <<findVars, downloadVars, uploadVars>>

----------------------------------------------------------------------------
(* The upload API as seen by VideoUploader *)

NoHash == <<>>
\* generate_file_hash, lines 215-226: the digest of the file's content
generate_file_hash(file) == <<"sha256", file.origin, file.size>>
\* a digest the server answers that is not the one it was sent
ServerHash == <<"sha256", "server", 1>>

\* GET /posts/generate-upload-url: an error (non-2xx, no connection, no
\* JSON), or a JSON object whose "url" and "hash" may each be missing.
SlotResponses ==
    [ok : {FALSE}, url : {""}, hash : {"none"}]
    \cup [ok : {TRUE}, url : {"slot", ""}, hash : {"same", "other", "none"}]

\* PUT to the slot: answered 2xx, answered non-2xx, or the request raises.
TransferResponses == {"2xx", "non2xx", "exception"}
\* POST /posts: a post record, or an error (non-2xx, no connection)
PostResponses == {"2xx", "error"}

----------------------------------------------------------------------------
(* main(), upload phase: lines 434-453 *)

\* main_upload_if without the emptiness test and its else branch
main_upload_ifNoTest ==
    /\ pc = "upload"
    /\ upload_pos' = 1 /\ pc' = "upload_for" /\ log' = log
    /\ UNCHANGED <<attempt, downloaded_files, escaping, empty_attempts, sleeps, quitCalls>>
    /\ UNCHANGED <<upload_info, publishCalls, posted, removed, reqlog>>
    /\ UNCHANGED <<findVars, downloadVars>>

\* lines 434-436 and 452-453
main_upload_if ==
    /\ pc = "upload"
    /\ IF downloaded_files # <<>>
       THEN upload_pos' = 1 /\ pc' = "upload_for" /\ log' = log
       ELSE upload_pos' = upload_pos /\ pc' = "done" /\ log' = log \cup {"skip_upload"}
    /\ UNCHANGED <<attempt, downloaded_files, escaping, empty_attempts, sleeps, quitCalls>>
    /\ UNCHANGED <<upload_info, publishCalls, posted, removed, reqlog>>
    /\ UNCHANGED <<findVars, downloadVars>>

\* main_upload_for that creates the publish as a task and goes on with the
\* next file without awaiting it
main_upload_forNotAwaited ==
    /\ pc = "upload_for"
    /\ IF upload_pos <= Len(downloaded_files)
       THEN /\ publishCalls' = publishCalls \cup {upload_pos}
            /\ upload_pos' = upload_pos + 1
            /\ pc' = "upload_for"
       ELSE /\ publishCalls' = publishCalls
            /\ upload_pos' = upload_pos
            /\ pc' = "done"
    /\ upload_info' = NoInfo
    /\ UNCHANGED <<attempt, downloaded_files, escaping, empty_attempts, sleeps, quitCalls, log>>
    /\ UNCHANGED <<posted, removed, reqlog>>
    /\ UNCHANGED <<findVars, downloadVars>>

\* lines 440-442: the next file of the loop is handed to
\* upload_video_to_socialverse, or the loop is over
main_upload_for ==
    /\ pc = "upload_for"
    /\ IF upload_pos <= Len(downloaded_files)
       THEN publishCalls' = publishCalls \cup {upload_pos} /\ pc' = "get_upload_url"
       ELSE publishCalls' = publishCalls /\ pc' = "done"
    /\ upload_info' = NoInfo
    /\ UNCHANGED <<attempt, downloaded_files, escaping, empty_attempts, sleeps, quitCalls, log>>
    /\ UNCHANGED <<upload_pos, posted, removed, reqlog>>
    /\ UNCHANGED <<findVars, downloadVars>>

\* An exception leaves upload_video_to_socialverse (lines 384-389) and is
\* caught by main's except around the whole loop (lines 450-451).
PublishRaises ==
    /\ log' = log \cup {"publish_failed", "upload_failed"}
    /\ pc' = "done"

video_path == downloaded_files[upload_pos]

\* get_upload_url, lines 228-276, called at line 366
get_upload_url ==
    /\ pc = "get_upload_url"
    /\ IF ~Exists(disk, video_path)
       THEN \* open() raises FileNotFoundError before any request is made
            /\ PublishRaises
            /\ UNCHANGED <<upload_info, reqlog>>
       ELSE LET file_hash == generate_file_hash(disk[video_path]) IN
            /\ \E resp \in SlotResponses :
                 /\ reqlog' = Append(reqlog, [op |-> "GET", pos |-> upload_pos,
                                              status |-> IF resp.ok THEN "2xx" ELSE "error"])
                 /\ IF ~resp.ok
                    THEN PublishRaises /\ upload_info' = upload_info
                    ELSE /\ upload_info' =
                              [upload_url |-> resp.url,
                               hash |-> CASE resp.hash = "same" -> file_hash
                                          [] resp.hash = "other" -> ServerHash
                                          [] OTHER -> NoHash]
                         /\ pc' = "upload_video"
                         /\ log' = log
    /\ UNCHANGED <<attempt, downloaded_files, escaping, empty_attempts, sleeps, quitCalls>>
    /\ UNCHANGED <<upload_pos, publishCalls, posted, removed>>
    /\ UNCHANGED <<findVars, downloadVars>>

\* What requests.put does with the slot's URL: requests.put(None, ...)
\* raises MissingSchema, a RequestException, without sending anything.
PutOutcomes(upload_url) == IF upload_url = "" THEN {"exception"} ELSE TransferResponses

\* upload_video that does not look at the answer (no raise_for_status)
upload_videoIgnoresStatus(response) == response \in {"2xx", "non2xx"}

\* upload_video, lines 278-303: True when the PUT was answered 2xx, False on
\* every RequestException (raise_for_status on a non-2xx answer included).
upload_video(response) == response = "2xx"

\* lines 369-372: the transfer, and ValueError when it returned False
transfer ==
    /\ pc = "upload_video"
    /\ \E response \in PutOutcomes(upload_info.upload_url) :
         /\ reqlog' = Append(reqlog, [op |-> "PUT", pos |-> upload_pos, status |-> response])
         /\ IF upload_video(response)
            THEN pc' = "create_post" /\ log' = log
            ELSE PublishRaises
    /\ UNCHANGED <<attempt, downloaded_files, escaping, empty_attempts, sleeps, quitCalls>>
    /\ UNCHANGED <<upload_pos, upload_info, publishCalls, posted, removed>>
    /\ UNCHANGED <<findVars, downloadVars>>

\* create_post that logs the error and returns instead of re-raising it
create_postSwallows ==
    /\ pc = "create_post"
    /\ \E response \in PostResponses :
         /\ reqlog' = Append(reqlog, [op |-> "POST", pos |-> upload_pos, status |-> response])
         /\ posted' = IF response = "2xx" THEN posted \cup {video_path} ELSE posted
         /\ pc' = "remove"
         /\ log' = log
    /\ UNCHANGED <<attempt, downloaded_files, escaping, empty_attempts, sleeps, quitCalls>>
    /\ UNCHANGED <<upload_pos, upload_info, publishCalls, removed>>
    /\ UNCHANGED <<findVars, downloadVars>>

\* create_post, lines 305-352, called at lines 375-382 with upload_info['hash']
create_post ==
    /\ pc = "create_post"
    /\ \E response \in PostResponses :
         /\ reqlog' = Append(reqlog, [op |-> "POST", pos |-> upload_pos, status |-> response])
         /\ IF response = "2xx"
            THEN posted' = posted \cup {video_path} /\ pc' = "remove" /\ log' = log
            ELSE posted' = posted /\ PublishRaises
    /\ UNCHANGED <<attempt, downloaded_files, escaping, empty_attempts, sleeps, quitCalls>>
    /\ UNCHANGED <<upload_pos, upload_info, publishCalls, removed>>
    /\ UNCHANGED <<findVars, downloadVars>>

\* lines 447-448: os.remove(video_path), then the next iteration
main_remove ==
    /\ pc = "remove"
    /\ disk' = Remove(disk, video_path)
    /\ removed' = removed \cup {video_path}
    /\ upload_pos' = upload_pos + 1
    /\ pc' = "upload_for"
    /\ UNCHANGED <<attempt, downloaded_files, escaping, empty_attempts, sleeps, quitCalls, log>>
    /\ UNCHANGED <<video_links, index, gathered, links_found, fetched>>
    /\ UNCHANGED <<upload_info, publishCalls, posted, reqlog>>
    /\ UNCHANGED findVars

----------------------------------------------------------------------------
Next ==
    \/ main_for
    \/ download_videos_find
    \/ download_videos_fetch
    \/ download_videos_return
    \/ main_except
    \/ main_sleep
    \/ main_interrupt
    \/ close
    \/ main_upload_if
    \/ main_upload_for
    \/ get_upload_url
    \/ transfer
    \/ create_post
    \/ main_remove

Spec == Init /\ [][Next]_vars

----------------------------------------------------------------------------
(* find_video_links on its own: the anchors rendered and max_videos are    *)
(* drawn from bounded sets, and the call is applied to them.               *)

InitFind ==
    /\ pc = "find_video_links"
    /\ result_links \in SeqsUpTo(ElementsOf(Hrefs), MaxScan)
    /\ max_videos \in 0..MaxCap
    /\ inspected = 0
    /\ InitRun

\* lines 72-115: the scan of the rendered anchors (lines 93-111), or [] when
\* a step of the search raised (lines 113-115)
find_video_links ==
    /\ pc = "find_video_links"
    /\ \/ /\ video_links' = ScanLinks(result_links, max_videos).links
          /\ inspected' = ScanLinks(result_links, max_videos).inspected
          /\ pc' = "found"
       \/ /\ video_links' = <<>>
          /\ inspected' = 0
          /\ pc' = "search_failed"
    /\ UNCHANGED <<result_links, max_videos, attempt, index, gathered, downloaded_files,
                   disk, escaping, links_found, fetched, empty_attempts, sleeps,
                   quitCalls, log>>
    /\ UNCHANGED uploadVars

NextFind == find_video_links

SpecFind == InitFind /\ [][NextFind]_vars

----------------------------------------------------------------------------
(* download_videos from line 178 on, on its own: the list of links is drawn *)
(* from a bounded set, one download_video call is made per link, and the   *)
(* results are filtered and returned.                                      *)

InitFetch ==
    /\ pc = "fetch"
    /\ attempt = 1
    /\ video_links \in SeqsUpTo(Hrefs, MaxLinks)
    /\ index = 1
    /\ gathered = <<>>
    /\ downloaded_files = <<>>
    /\ disk = EmptyDir
    /\ escaping = FALSE
    /\ upload_pos = 0
    /\ upload_info = NoInfo
    /\ result_links = <<>>
    /\ max_videos = MAX_VIDEOS
    /\ inspected = 0
    /\ links_found = (video_links # <<>>)
    /\ fetched = FALSE
    /\ empty_attempts = 0
    /\ sleeps = 0
    /\ quitCalls = 0
    /\ publishCalls = {}
    /\ posted = {}
    /\ removed = {}
    /\ reqlog = <<>>
    /\ log = {}

NextFetch ==
    \/ download_videos_fetch
    \/ download_videos_return

SpecFetch == InitFetch /\ [][NextFetch]_vars

----------------------------------------------------------------------------
(* Properties *)

DiscoveryPcs == {"for", "find", "fetch", "sleep", "finally"}
UploadPcs == {"upload", "upload_for", "get_upload_url", "upload_video", "create_post",
              "remove", "done"}

Calls(op, pos) == {j \in 1..Len(reqlog) : reqlog[j].op = op /\ reqlog[j].pos = pos}

\* C1: when the run is over, publish has been invoked for every downloaded
\* file, whichever publish failed before it (a failure is logged and the
\* loop goes on with the next file).
C1_FailureDoesNotAbort ==
    pc = "done" =>
        /\ \A i \in 1..Len(downloaded_files) : i \in publishCalls
        /\ (\E i \in publishCalls : downloaded_files[i] \notin posted)
              => "upload_failed" \in log

\* C2: main removes a file only after the publish of that file returned a
\* PostRecord, and in every state every downloaded file whose publish has
\* not returned a PostRecord (failed, or not attempted) is on disk.
C2_DeletedOnlyAfterPost ==
    /\ removed \subseteq posted
    /\ \A i \in 1..Len(downloaded_files) :
          downloaded_files[i] \notin posted => Exists(disk, downloaded_files[i])

\* C3: a publish whose transfer failed (the PUT answered non-2xx, or the
\* request raised) never sends the post-creation request and creates no
\* PostRecord.
C3_AtomicOnTransferFailure ==
    \A j \in 1..Len(reqlog) :
        (reqlog[j].op = "PUT" /\ reqlog[j].status # "2xx")
            => /\ Calls("POST", reqlog[j].pos) = {}
               /\ downloaded_files[reqlog[j].pos] \notin posted

C3_Witness ==
    /\ pc = "done"
    /\ \E j \in 1..Len(reqlog) :
          reqlog[j].op = "PUT" /\ reqlog[j].status = "non2xx" /\ reqlog[j].pos = 2

\* C4: the retry loop starts at most max_retries attempts, starts none after
\* an attempt returned a non-empty list (that attempt follows exactly the
\* empty and the raising ones), and gives up with an empty list only after
\* max_retries attempts: two empty attempts then a non-empty one are
\* exactly three attempts.
C4_RetryLoop ==
    /\ attempt <= max_retries
    /\ downloaded_files # <<>> =>
          /\ pc \in {"finally"} \cup UploadPcs
          /\ attempt = empty_attempts + sleeps + 1
    /\ (downloaded_files = <<>> /\ pc \in UploadPcs) => attempt = max_retries

C4_Witness ==
    /\ pc = "done"
    /\ downloaded_files # <<>>
    /\ empty_attempts = 2
    /\ attempt = 3

\* C5: when download_videos returns for distinct links that all have a
\* shortcode, it returns at most as many paths as links, every path it
\* returns names an existing file of positive size, and no two of them are
\* equal.
Distinct(seq) == \A i, j \in 1..Len(seq) : i # j => seq[i] # seq[j]

C5_ReturnedFilesExist ==
    (/\ pc = "fetch"
     /\ index > Len(video_links)
     /\ Distinct(video_links)
     /\ \A i \in 1..Len(video_links) : Shortcode(video_links[i]) # "")
    => LET files == Downloaded(gathered) IN
       /\ Len(files) <= Len(video_links)
       /\ \A i \in 1..Len(files) : Exists(disk, files[i]) /\ GetSize(disk, files[i]) > 0
       /\ Distinct(files)

\* C6: the browser is closed exactly once on every way out of the discovery
\* phase: never before the phase is over, and once as soon as main is past
\* it, whether it goes on to the upload phase or an exception leaves main.
C6_ClosedExactlyOnce ==
    /\ pc \in DiscoveryPcs => quitCalls = 0
    /\ pc \in UploadPcs \cup {"escaped"} => quitCalls = 1

C6_Witness == pc = "escaped" /\ quitCalls = 1 /\ attempt = 2

\* C7: as long as no call of find_video_links has returned a link, no fetch
\* and no publish is made and no request is sent; a run that ends that way
\* after all its attempts has logged the 'skipping upload' warning and no
\* upload failure.
C7_NoLinksNoWork ==
    ~links_found =>
        /\ ~fetched
        /\ publishCalls = {}
        /\ reqlog = <<>>
        /\ downloaded_files = <<>>
        /\ pc = "done" => /\ "skip_upload" \in log
                          /\ "upload_failed" \notin log
                          /\ attempt = max_retries

C7_Witness ==
    /\ pc = "done"
    /\ ~links_found
    /\ empty_attempts = max_retries
    /\ "skip_upload" \in log

\* C8: when download_videos returns after two distinct links with shortcodes for
\* which the library wrote one empty file and one file with data, the list
\* it hands to the upload phase is exactly the path of the download with
\* data, and the empty file is still in the directory.
C8_OnlyNonEmptyPublished ==
    (/\ pc = "fetch"
     /\ index > Len(video_links)
     /\ Len(video_links) = 2
     /\ Distinct(video_links)
     /\ \A i \in 1..2 : Shortcode(video_links[i]) # "" /\ ~gathered[i].raised
     /\ {gathered[1].wrote, gathered[2].wrote} = {"empty", "data"})
    => LET good == CHOOSE i \in 1..2 : gathered[i].wrote = "data" IN
       /\ Downloaded(gathered) = <<FullPath(good, Shortcode(video_links[good]))>>
       /\ \E f \in DOMAIN disk : GetSize(disk, f) = 0

\* C9: every attempt after the first is preceded by a sleep: when attempt
\* number n has started, at least n - 1 sleeps have been made.
C9_SleepBetweenAttempts == attempt <= sleeps + 1

\* C10: find_video_links returns at most max_videos links, each with the
\* '/reel/' pattern, in the order of the rendered list, and reads no
\* rendered result after the max_videos-th match.
Matches(links) ==
    LET hrefs == [j \in 1..Len(links) |-> IF links[j].raises THEN NoUrl ELSE links[j].href]
    IN  SelectSeq(hrefs, LAMBDA h : h # NoUrl /\ ContainsReel(h))

C10_CappedScan ==
    pc = "found" =>
        /\ Len(video_links) <= max_videos
        /\ \A i \in 1..Len(video_links) : ContainsReel(video_links[i])
        /\ Len(video_links) <= Len(Matches(result_links))
        /\ video_links = SubSeq(Matches(result_links), 1, Len(video_links))
        /\ \A j \in 1..inspected :
              max_videos >= 1 => Len(Matches(SubSeq(result_links, 1, j - 1))) < max_videos

\* C11: a link from which no post identifier can be extracted (the segment
\* before the final component is missing, empty, or is not the segment that
\* follows the reel marker) makes download_video return None without
\* calling the download library, and yields no entry of the result.
PostId(url) ==
    IF Len(url) >= 3 /\ url[Len(url) - 2] = "reel" THEN url[Len(url) - 1] ELSE ""

\* C11: no post identifier, no library call and no result entry.
C11_NoShortcodeNoDownload ==
    pc = "fetch" =>
        \A j \in 1..Len(gathered) :
            PostId(video_links[j]) = "" =>
                /\ ~gathered[j].called
                /\ gathered[j].path = NoPath

\* C12: publish never swallows a failure.  A publish returns (main goes on
\* to os.remove) only with a PostRecord, a PostRecord exists only when the
\* slot request, the transfer and the post request of that file were all
\* answered 2xx and none of them failed, and a publish that is over without
\* a PostRecord has raised: the failure is logged by publish and by main's
\* handler.
Answered(op, pos) == \E j \in Calls(op, pos) : reqlog[j].status = "2xx"
Failed(pos) == \E j \in 1..Len(reqlog) : reqlog[j].pos = pos /\ reqlog[j].status # "2xx"
InFlight(pos) ==
    pos = upload_pos /\ pc \in {"get_upload_url", "upload_video", "create_post"}

C13_MalformedSlotRaises ==
    /\ pc \in {"upload_video", "create_post", "remove"} =>
          /\ upload_info.upload_url # ""
          /\ upload_info.hash # NoHash
    /\ \A i \in 1..Len(downloaded_files) :
          ~Answered("GET", i) => Calls("PUT", i) = {} /\ Calls("POST", i) = {}

\* C14: download_video never raises past its boundary: every call made by
\* download_videos ends by handing a value to the gather, that value is
\* None or a path, and it is None whenever an exception was thrown inside
\* the call.
C14_FetchNeverRaises ==
    pc = "fetch" =>
        /\ Len(gathered) = index - 1
        /\ \A j \in 1..Len(gathered) :
              /\ gathered[j].path = NoPath \/ gathered[j].path[1] = "vid"
              /\ gathered[j].raised => gathered[j].path = NoPath

C14_Witness ==
    /\ pc = "fetch"
    /\ Len(gathered) = 2
    /\ gathered[1].raised /\ gathered[1].wrote = "data"
    /\ gathered[2].path # NoPath

\* C15: uploads are serialized.  A publish is in flight from its call until
\* it returns a PostRecord or fails; at most one publish is in flight, a
\* publish is called only after the publishes of all earlier files have
\* ended, and the requests of different files are never interleaved.
Ended(i) ==
    \/ downloaded_files[i] \in posted
    \/ Failed(i)
    \/ (pc = "done" /\ i = upload_pos /\ "publish_failed" \in log)

Running == {i \in publishCalls : ~Ended(i)}

\* C15: at most one publish in flight, in file order.
C15_UploadsSerialized ==
    /\ Cardinality(Running) <= 1
    /\ \A i \in publishCalls : \A k \in 1..(i - 1) : k \in publishCalls /\ Ended(k)
    /\ \A j, k \in 1..Len(reqlog) : j < k => reqlog[j].pos <= reqlog[k].pos

C15_Witness ==
    /\ pc = "upload_video"
    /\ upload_pos = 2
    /\ Running = {2}
    /\ Calls("POST", 1) # {}

\* C16: the fetches of a batch run concurrently: every fetch has been
\* started before any of them settles, so as soon as one result has been
\* handed to the gather, the bodies of all the fetches have begun.
Started == index - 1
Settled == Len(gathered)

\* C16: once a fetch has settled, all fetches of the batch have started.
C16_FetchesStartedTogether ==
    (pc = "fetch" /\ Settled >= 1) => Started = Len(video_links)

\* C17: download_videos takes its links from one call of find_video_links
\* made before any fetch, calls download_video once per link with the
\* link's 1-based position as index, returns only when every fetch has
\* settled, and returns exactly the results that are not None, by
\* increasing index.
Present(results) == {j \in 1..Len(results) : results[j].path # NoPath}

C17_CalledPerLink ==
    pc = "fetch" =>
        /\ index \in 1..(Len(video_links) + 1)
        /\ Len(gathered) = index - 1
        /\ \A j \in 1..Len(gathered) :
              gathered[j].path \in {NoPath, FullPath(j, Shortcode(video_links[j]))}

C17_ReturnsPresent ==
    (pc = "fetch" /\ pc' \in {"finally", "for"} /\ ~escaping') =>
        /\ Len(gathered) = Len(video_links)
        /\ Len(downloaded_files') = Cardinality(Present(gathered))
        /\ \A j \in Present(gathered) :
              \E k \in 1..Len(downloaded_files') : downloaded_files'[k] = gathered[j].path
        /\ \A k \in 1..Len(downloaded_files') :
              \E j \in Present(gathered) : downloaded_files'[k] = gathered[j].path
        /\ \A k, l \in 1..Len(downloaded_files') :
              k < l => downloaded_files'[k][2] < downloaded_files'[l][2]

C17_FindOnce ==
    video_links' # video_links =>
        \/ pc = "find" /\ pc' = "fetch"
        \/ video_links' = <<>> /\ pc' # "fetch"

\* C17: one call per link with its 1-based position, and the non-None
\* results returned in index order after all have settled.
C17_DownloadVideos ==
    /\ []C17_CalledPerLink
    /\ [][C17_ReturnsPresent /\ C17_FindOnce]_vars

C17_Witness ==
    /\ pc = "finally"
    /\ ~escaping
    /\ Len(downloaded_files) = 1
    /\ downloaded_files[1][2] = 2

\* C18: fetches do not collide on the filesystem: while a batch of distinct
\* links with post identifiers is fetched, every path a fetch has returned still names a file,
\* and that file is the one the library wrote for that fetch's shortcode.
C18_FetchesDoNotCollide ==
    (/\ pc = "fetch"
     /\ Distinct(video_links)
     /\ \A j \in 1..Len(video_links) : PostId(video_links[j]) # "")
    =>  \A j \in 1..Len(gathered) :
            gathered[j].path # NoPath =>
                /\ Exists(disk, gathered[j].path)
                /\ disk[gathered[j].path].origin = Shortcode(video_links[j])

\* C19: in every successful publish the hash given to create_post (line
\* 376, upload_info['hash']) is the SHA-256 digest computed from the local
\* file and sent in the slot request, whatever hash the slot answer held
\* (an answer without a hash is the case of C13).
C19_PostCarriesFingerprint ==
    (pc = "remove" /\ upload_info.hash # NoHash) =>
        /\ Exists(disk, video_path)
        /\ upload_info.hash = generate_file_hash(disk[video_path])

\* C20: phase ordering in main.  Once a publish has been called or a
\* request has been sent, the browser has been closed and no download_videos
\* call is in progress; from then on no attempt is started, no link is
\* discovered and no fetch is made.
C20_UploadAfterClose ==
    (publishCalls # {} \/ reqlog # <<>>) =>
        /\ quitCalls = 1
        /\ pc \in UploadPcs
        /\ video_links = <<>> /\ gathered = <<>>

C20_NoDiscoveryAfterPublish ==
    publishCalls # {} =>
        /\ attempt' = attempt
        /\ video_links' = video_links
        /\ gathered' = gathered
        /\ downloaded_files' = downloaded_files
        /\ quitCalls' = quitCalls

\* C20: requests only after close, no discovery or fetch after a publish.
C20_PhaseOrdering ==
    /\ []C20_UploadAfterClose
    /\ [][C20_NoDiscoveryAfterPublish]_vars

C20_Witness ==
    /\ pc = "done"
    /\ attempt = 2
    /\ quitCalls = 1
    /\ Len(reqlog) = 3
    /\ posted # {}

============================================================================
